---- MODULE Spec2Model ----
(***************************************************************************)
(* Model of pvsadm's image-import command (cmd/image/import/import.go,     *)
(* Cmd.RunE) and of the purge filter (pkg/client/image/image.go,           *)
(* Client.GetAllPurgeable).                                                *)
(*                                                                         *)
(* Strings whose characters matter (OS type, storage type, image names,    *)
(* regular expressions) are sequences of one-character strings; a CRN is   *)
(* a sequence of its words.  The remote services (resource controller,     *)
(* COS, PowerVS) are the environment: every call's outcome is chosen with  *)
(* \E at the program point of the call.                                    *)
(***************************************************************************)
EXTENDS Integers, Sequences, FiniteSets, TLC

VARIABLES
    ImageCMDOptions, \* pkg.ImageCMDOptions: the flags as the user gave them
    opt,             \* RunE's local copy of the options (import.go:44)
    pc,              \* position of RunE
    result,          \* "running", "exit1" (os.Exit(1)), "error", "ok"
    errKind,         \* which error RunE returned ("" while none)
    instances,       \* instances.Resources (import.go:77)
    idx,             \* position of the range loop of cosOfBucket
    s3client,        \* var s3client (import.go:43): NilClient or the instance it was made for
    cosOfBucket,     \* result of the scan (import.go:83-102)
    keys,            \* keys.Resources (import.go:118)
    cred,            \* cred (import.go:123)
    createArgs,      \* arguments CreateResourceKey was called with
    importArgs,      \* arguments ImportImage was called with
    calls,           \* history: every remote call made, in order
    images,          \* purge: images.Images of the GetAll listing
    purgeArgs,       \* purge: before, since, expr
    pidx,            \* purge: position of the range loop
    candidates,      \* purge: var candidates
    ppc              \* purge: position of GetAllPurgeable

vars == <<ImageCMDOptions, opt, pc, result, errKind, instances, idx, s3client,
          cosOfBucket, keys, cred, createArgs, importArgs, calls,
          images, purgeArgs, pidx, candidates, ppc>>

importVars == <<ImageCMDOptions, opt, pc, result, errKind, instances, idx, s3client,
                cosOfBucket, keys, cred, createArgs, importArgs, calls>>

purgeVars == <<images, purgeArgs, pidx, candidates, ppc>>

----------------------------------------------------------------------------
(* Bounds *)

MaxInstances == 3   \* longest list ListResourceInstances returns
MaxKeys == 2        \* longest list ListResourceKeys returns
MaxImages == 2      \* longest GetAll listing
MaxTime == 2        \* creation dates and durations range over 0..MaxTime

----------------------------------------------------------------------------
(* Strings *)

RECURSIVE SeqsUpTo(_, _)
SeqsUpTo(S, n) ==
    IF n = 0 THEN {<<>>}
    ELSE LET shorter == SeqsUpTo(S, n - 1)
         IN  shorter \cup {Append(s, x) : s \in {t \in shorter : Len(t) = n - 1}, x \in S}

NoRepeat(s) == \A a, b \in DOMAIN s : a # b => s[a] # s[b]

ToLowerChar(c) ==
    CASE c = "A" -> "a" [] c = "D" -> "d" [] c = "E" -> "e" [] c = "H" -> "h"
      [] c = "I" -> "i" [] c = "R" -> "r" [] c = "T" -> "t" [] c = "X" -> "x"
      [] OTHER -> c

ToLower(s) == [k \in DOMAIN s |-> ToLowerChar(s[k])]

\* strings.Contains: substr occurs in s at some position
StringsContains(s, substr) ==
    \E k \in 0..(Len(s) - Len(substr)) :
        \A j \in 1..Len(substr) : s[k + j] = substr[j]

\* utils.Contains: membership in a slice of strings
Contains(slice, s) == \E k \in DOMAIN slice : slice[k] = s

validOsType == << <<"a","i","x">>, <<"i","b","m","i">>,
                  <<"r","e","d","h","a","t">>, <<"s","l","e","s">> >>

validStorageType == << <<"t","i","e","r","3">>, <<"t","i","e","r","1">> >>

OsTypeInputs == { <<>>, <<"a","i","x">>, <<"A","I","X">>,
                  <<"R","e","d","H","a","t">>, <<"w","i","n">>, <<"a","i">> }

StorageTypeInputs == { <<"t","i","e","r","3">>, <<"T","i","e","r","1">>,
                       <<>>, <<"t","i","e","r","2">> }

AccessKeyInputs == {"", "user-access"}
SecretKeyInputs == {"", "user-secret"}

BucketName == "bkt"
ServiceCredName == "pvsadm-service-cred"
BucketNames == {"bkt", "other"}

----------------------------------------------------------------------------
(* Remote resources *)

CosCrn(n) == <<"crn", "v1", "bluemix", "cloud-object-storage", "global", n>>
PvsCrn(n) == <<"crn", "v1", "bluemix", "power-iaas", "lon04", n>>
CosWord == <<"cloud-object-storage">>

Resources == { [ID |-> "cos1", Crn |-> CosCrn("cos1")],
               [ID |-> "cos2", Crn |-> CosCrn("cos2")],
               [ID |-> "pvs1", Crn |-> PvsCrn("pvs1")] }

NilResource == [ID |-> "nil", Crn |-> <<>>]
NilClient == "nil"

\* a resource key as ListResourceKeys / CreateResourceKey return it: the
\* instance it belongs to and its credentials' cos_hmac_keys property
ResourceKey(src, hmac) ==
    [source |-> src, hasHmac |-> hmac,
     access_key_id |-> IF hmac THEN "ak-" \o src ELSE "",
     secret_access_key |-> IF hmac THEN "sk-" \o src ELSE ""]

ExistingKeys == { ResourceKey("cos1", TRUE), ResourceKey("cos2", TRUE),
                  ResourceKey("pvs1", FALSE) }

NilCred == [source |-> "nil", hasHmac |-> FALSE, access_key_id |-> "", secret_access_key |-> ""]

NoCreate == [name |-> "", source |-> "", hmac |-> FALSE]
NoImport == [accessKey |-> "", secretKey |-> "", bucketName |-> "",
             osType |-> <<>>, storageType |-> <<>>]

\* one remote call: the operation, the instance (or name) it addressed, whether
\* it succeeded, and for ListBuckets the bucket names it answered
Call(op, inst, ok, buckets) == [op |-> op, inst |-> inst, ok |-> ok, buckets |-> buckets]

\* json.Marshal(cred.GetProperty("cos_hmac_keys")) then json.Unmarshal into h:
\* a missing property marshals to null, which leaves h's fields empty
HmacOf(c) ==
    IF c.hasHmac THEN [AccessKeyID |-> c.access_key_id, SecretKeyID |-> c.secret_access_key]
    ELSE [AccessKeyID |-> "", SecretKeyID |-> ""]

----------------------------------------------------------------------------
(* The import command *)

PurgeIdle ==
    /\ images = <<>>
    /\ purgeArgs = [before |-> 0, since |-> 0, expr |-> <<>>]
    /\ pidx = 1
    /\ candidates = <<>>
    /\ ppc = "idle"

Init ==
    /\ ImageCMDOptions \in [OsType : OsTypeInputs, StorageType : StorageTypeInputs,
                            AccessKey : AccessKeyInputs, SecretKey : SecretKeyInputs,
                            BucketName : {BucketName},
                            ServiceCredName : {ServiceCredName}]
    /\ opt = ImageCMDOptions
    /\ pc = "validate"
    /\ result = "running"
    /\ errKind = ""
    /\ instances = <<>>
    /\ idx = 1
    /\ s3client = NilClient
    /\ cosOfBucket = NilResource
    /\ keys = <<>>
    /\ cred = NilCred
    /\ createArgs = NoCreate
    /\ importArgs = NoImport
    /\ calls = <<>>
    /\ PurgeIdle

\* return err / return fmt.Errorf(...)
ReturnError(kind) ==
    /\ pc' = "done"
    /\ result' = "error"
    /\ errKind' = kind

\* import.go:47-58
ValidInputs(o) ==
    /\ ~ (o.OsType # <<>> /\ ~ Contains(validOsType, ToLower(o.OsType)))
    /\ Contains(validStorageType, ToLower(o.StorageType))

Validate ==
    /\ pc = "validate"
    /\ IF ValidInputs(opt)
       THEN /\ pc' = "newClient"
            /\ UNCHANGED <<result, errKind>>
       ELSE /\ pc' = "done"
            /\ result' = "exit1"
            /\ UNCHANGED errKind
    /\ UNCHANGED <<ImageCMDOptions, opt, instances, idx, s3client, cosOfBucket,
                   keys, cred, createArgs, importArgs, calls>>
    /\ UNCHANGED purgeVars

\* Construct with the error dropped: the workflow goes on after a failure
Construct_IgnoresError(at, op, next) ==
    /\ pc = at
    /\ \E ok \in BOOLEAN :
         /\ calls' = Append(calls, Call(op, "-", ok, {}))
         /\ pc' = next
         /\ UNCHANGED <<result, errKind>>
    /\ UNCHANGED <<ImageCMDOptions, opt, instances, idx, s3client, cosOfBucket,
                   keys, cred, createArgs, importArgs>>
    /\ UNCHANGED purgeVars

\* import.go:60-75: client.NewClient, core.NewIamAuthenticator,
\* client.NewResourceControllerV2, each returning its error
Construct(at, op, next) ==
    /\ pc = at
    /\ \E ok \in BOOLEAN :
         /\ calls' = Append(calls, Call(op, "-", ok, {}))
         /\ IF ok
            THEN pc' = next /\ UNCHANGED <<result, errKind>>
            ELSE ReturnError(op)
    /\ UNCHANGED <<ImageCMDOptions, opt, instances, idx, s3client, cosOfBucket,
                   keys, cred, createArgs, importArgs>>
    /\ UNCHANGED purgeVars

NewClient == Construct("newClient", "NewClient", "newAuth")
NewIamAuthenticator == Construct("newAuth", "NewIamAuthenticator", "newRC")
NewResourceControllerV2 == Construct("newRC", "NewResourceControllerV2", "listInstances")

\* import.go:77-80
ListResourceInstances ==
    /\ pc = "listInstances"
    /\ \/ /\ calls' = Append(calls, Call("ListResourceInstances", "-", FALSE, {}))
          /\ ReturnError("ListResourceInstances")
          /\ UNCHANGED <<instances, idx>>
       \/ \E rs \in {s \in SeqsUpTo(Resources, MaxInstances) : NoRepeat(s)} :
            /\ calls' = Append(calls, Call("ListResourceInstances", "-", TRUE, {}))
            /\ instances' = rs
            /\ idx' = 1
            /\ pc' = "scan"
            /\ UNCHANGED <<result, errKind>>
    /\ UNCHANGED <<ImageCMDOptions, opt, s3client, cosOfBucket,
                   keys, cred, createArgs, importArgs>>
    /\ UNCHANGED purgeVars

----------------------------------------------------------------------------
(* Step 1: the scan of cosOfBucket, import.go:83-106 *)

InScan == pc = "scan" /\ idx <= Len(instances)

\* IsCos without the CRN test: every instance is queried
IsCos_Any(resource) == TRUE

IsCos(resource) == StringsContains(resource.Crn, CosWord)

\* `return &resource`: the element the range loop is at
Matched(resources, k) == resources[k]

\* import.go:85: the CRN lacks "cloud-object-storage", next iteration
ScanSkip ==
    /\ InScan
    /\ ~ IsCos(instances[idx])
    /\ idx' = idx + 1
    /\ UNCHANGED <<ImageCMDOptions, opt, pc, result, errKind, instances, s3client,
                   cosOfBucket, keys, cred, createArgs, importArgs, calls>>
    /\ UNCHANGED purgeVars

\* ScanNewS3Client keeping a client once one was made
ScanNewS3Client_Cached ==
    /\ InScan
    /\ IsCos(instances[idx])
    /\ IF s3client # NilClient
       THEN /\ pc' = "listBuckets"
            /\ UNCHANGED <<s3client, idx, calls>>
       ELSE \E ok \in BOOLEAN :
              /\ calls' = Append(calls, Call("NewS3Client", instances[idx].ID, ok, {}))
              /\ IF ok
                 THEN /\ s3client' = instances[idx].ID
                      /\ pc' = "listBuckets"
                      /\ UNCHANGED idx
                 ELSE /\ s3client' = NilClient
                      /\ idx' = idx + 1
                      /\ UNCHANGED pc
    /\ UNCHANGED <<ImageCMDOptions, opt, result, errKind, instances,
                   cosOfBucket, keys, cred, createArgs, importArgs>>
    /\ UNCHANGED purgeVars

\* import.go:86-89: s3client, err = client.NewS3Client(...); on error continue
ScanNewS3Client ==
    /\ InScan
    /\ IsCos(instances[idx])
    /\ \E ok \in BOOLEAN :
         /\ calls' = Append(calls, Call("NewS3Client", instances[idx].ID, ok, {}))
         /\ IF ok
            THEN /\ s3client' = instances[idx].ID
                 /\ pc' = "listBuckets"
                 /\ UNCHANGED idx
            ELSE /\ s3client' = NilClient
                 /\ idx' = idx + 1
                 /\ UNCHANGED pc
    /\ UNCHANGED <<ImageCMDOptions, opt, result, errKind, instances,
                   cosOfBucket, keys, cred, createArgs, importArgs>>
    /\ UNCHANGED purgeVars

\* import.go:90-98: s3client.S3Session.ListBuckets(nil); on error continue;
\* return &resource at the first bucket named opt.BucketName
ScanListBuckets ==
    /\ pc = "listBuckets"
    /\ \/ /\ calls' = Append(calls, Call("ListBuckets", s3client, FALSE, {}))
          /\ idx' = idx + 1
          /\ pc' = "scan"
          /\ UNCHANGED cosOfBucket
       \/ \E buckets \in SUBSET BucketNames :
            /\ calls' = Append(calls, Call("ListBuckets", s3client, TRUE, buckets))
            /\ IF \E bucket \in buckets : bucket = opt.BucketName
               THEN /\ cosOfBucket' = Matched(instances, idx)
                    /\ pc' = "checkObject"
                    /\ UNCHANGED idx
               ELSE /\ idx' = idx + 1
                    /\ pc' = "scan"
                    /\ UNCHANGED cosOfBucket
    /\ UNCHANGED <<ImageCMDOptions, opt, result, errKind, instances, s3client,
                   keys, cred, createArgs, importArgs>>
    /\ UNCHANGED purgeVars

\* import.go:101-106: the loop ends, return nil, "failed to find the COS instance"
ScanNotFound ==
    /\ pc = "scan"
    /\ idx > Len(instances)
    /\ cosOfBucket' = NilResource
    /\ ReturnError("failed to find the COS instance")
    /\ UNCHANGED <<ImageCMDOptions, opt, instances, idx, s3client,
                   keys, cred, createArgs, importArgs, calls>>
    /\ UNCHANGED purgeVars

\* NeedCredentials with && for ||
NeedCredentials_Both(o) == o.AccessKey = "" /\ o.SecretKey = ""

\* import.go:116
NeedCredentials(o) == o.AccessKey = "" \/ o.SecretKey = ""

\* CheckIfObjectExists with the answer ignored
CheckIfObjectExists_Ignored ==
    /\ pc = "checkObject"
    /\ s3client # NilClient
    /\ \E objectExists \in BOOLEAN :
         /\ calls' = Append(calls, Call("CheckIfObjectExists", s3client, objectExists, {}))
         /\ pc' = IF NeedCredentials(opt) THEN "listKeys" ELSE "newPVM"
         /\ UNCHANGED <<result, errKind>>
    /\ UNCHANGED <<ImageCMDOptions, opt, instances, idx, s3client, cosOfBucket,
                   keys, cred, createArgs, importArgs>>
    /\ UNCHANGED purgeVars

\* Step 2, import.go:110-114: s3client.CheckIfObjectExists; a nil s3client
\* is a nil pointer dereference
CheckIfObjectExists ==
    /\ pc = "checkObject"
    /\ IF s3client = NilClient
       THEN /\ pc' = "done"
            /\ result' = "panic"
            /\ UNCHANGED <<errKind, calls>>
       ELSE \E objectExists \in BOOLEAN :
              /\ calls' = Append(calls, Call("CheckIfObjectExists", s3client, objectExists, {}))
              /\ IF objectExists
                 THEN /\ pc' = IF NeedCredentials(opt) THEN "listKeys" ELSE "newPVM"
                      /\ UNCHANGED <<result, errKind>>
                 ELSE ReturnError("failed to found the object")
    /\ UNCHANGED <<ImageCMDOptions, opt, instances, idx, s3client, cosOfBucket,
                   keys, cred, createArgs, importArgs>>
    /\ UNCHANGED purgeVars

----------------------------------------------------------------------------
(* Steps 3 and 4: the service credential, import.go:116-162 *)

\* import.go:118-124, 138-142: ListResourceKeys by name; the first key is
\* reused when the list is not empty
ListResourceKeys ==
    /\ pc = "listKeys"
    /\ \/ /\ calls' = Append(calls, Call("ListResourceKeys", opt.ServiceCredName, FALSE, {}))
          /\ ReturnError("failed to list the service credentials")
          /\ UNCHANGED <<keys, cred>>
       \/ \E ks \in {s \in SeqsUpTo(ExistingKeys, MaxKeys) : NoRepeat(s)} :
            /\ calls' = Append(calls, Call("ListResourceKeys", opt.ServiceCredName, TRUE, {}))
            /\ keys' = ks
            /\ IF Len(ks) = 0
               THEN pc' = "createKey" /\ UNCHANGED cred
               ELSE pc' = "assignKeys" /\ cred' = ks[1]
            /\ UNCHANGED <<result, errKind>>
    /\ UNCHANGED <<ImageCMDOptions, opt, instances, idx, s3client, cosOfBucket,
                   createArgs, importArgs>>
    /\ UNCHANGED purgeVars

\* CreateResourceKeyOptions without the HMAC parameter
CreateResourceKeyOptions_NoHmac(o, cos) ==
    [name |-> o.ServiceCredName, source |-> cos.ID, hmac |-> FALSE]

\* import.go:127-130
CreateResourceKeyOptions(o, cos) ==
    [name |-> o.ServiceCredName, source |-> cos.ID, hmac |-> TRUE]

\* import.go:125-136: the key the service creates belongs to the source
\* named in the request and carries HMAC keys when they were asked for
CreateResourceKey ==
    /\ pc = "createKey"
    /\ createArgs' = CreateResourceKeyOptions(opt, cosOfBucket)
    /\ \E ok \in BOOLEAN :
         /\ calls' = Append(calls, Call("CreateResourceKey", createArgs'.source, ok, {}))
         /\ IF ok
            THEN /\ cred' = ResourceKey(createArgs'.source, createArgs'.hmac)
                 /\ pc' = "assignKeys"
                 /\ UNCHANGED <<result, errKind>>
            ELSE /\ ReturnError("CreateResourceKey")
                 /\ UNCHANGED cred
    /\ UNCHANGED <<ImageCMDOptions, opt, instances, idx, s3client, cosOfBucket,
                   keys, importArgs>>
    /\ UNCHANGED purgeVars

\* import.go:144-160: marshal cos_hmac_keys, unmarshal into h, assign both keys
AssignKeys ==
    /\ pc = "assignKeys"
    /\ \/ /\ ReturnError("json")
          /\ UNCHANGED opt
       \/ /\ opt' = [opt EXCEPT !.AccessKey = HmacOf(cred).AccessKeyID,
                                !.SecretKey = HmacOf(cred).SecretKeyID]
          /\ pc' = "newPVM"
          /\ UNCHANGED <<result, errKind>>
    /\ UNCHANGED <<ImageCMDOptions, instances, idx, s3client, cosOfBucket,
                   keys, cred, createArgs, importArgs, calls>>
    /\ UNCHANGED purgeVars

\* import.go:164-167
NewPVMClient == Construct("newPVM", "NewPVMClient", "import")

\* ImportBody without strings.ToLower
ImportBody_NoLower(o) ==
    [accessKey |-> o.AccessKey, secretKey |-> o.SecretKey, bucketName |-> o.BucketName,
     osType |-> o.OsType, storageType |-> o.StorageType]

\* import.go:169-170 with image.go:45-57: the body of the POST
ImportBody(o) ==
    [accessKey |-> o.AccessKey, secretKey |-> o.SecretKey, bucketName |-> o.BucketName,
     osType |-> ToLower(o.OsType), storageType |-> ToLower(o.StorageType)]

\* import.go:169-176 and image.go:59-75: the POST fails, or answers with the
\* first response (the job was not initiated), or returns the image
ImportImage ==
    /\ pc = "import"
    /\ importArgs' = ImportBody(opt)
    /\ \/ /\ calls' = Append(calls, Call("ImportImage", "-", FALSE, {}))
          /\ \E kind \in {"ImportImage", "Failed to initiate the import job"} :
                ReturnError(kind)
       \/ /\ calls' = Append(calls, Call("ImportImage", "-", TRUE, {}))
          /\ pc' = "done"
          /\ result' = "ok"
          /\ UNCHANGED errKind
    /\ UNCHANGED <<ImageCMDOptions, opt, instances, idx, s3client, cosOfBucket,
                   keys, cred, createArgs>>
    /\ UNCHANGED purgeVars

Next ==
    \/ Validate
    \/ NewClient
    \/ NewIamAuthenticator
    \/ NewResourceControllerV2
    \/ ListResourceInstances
    \/ ScanSkip
    \/ ScanNewS3Client
    \/ ScanListBuckets
    \/ ScanNotFound
    \/ CheckIfObjectExists
    \/ ListResourceKeys
    \/ CreateResourceKey
    \/ AssignKeys
    \/ NewPVMClient
    \/ ImportImage

Spec == Init /\ [][Next]_vars

----------------------------------------------------------------------------
(* The purge filter, image.go:78-97 *)

Now == MaxTime

ImageNames == { <<"a">>, <<"a","b">>, <<"b","a">> }

Images == [Name : ImageNames, CreationDate : 0..MaxTime]

\* regular expressions over literals, ".", "^" and "$"; "(" opens a group
\* that nothing closes
Exprs == { <<>>, <<"a">>, <<"b">>, <<"^","a">>, <<"a","$">>, <<".","b">>,
           <<"^","b","$">>, <<"a","b","a">>, <<"(">>, <<"a","(">> }

\* regexp.Compile: the error of a missing closing parenthesis
CompileFails(expr) == \E k \in DOMAIN expr : expr[k] = "("

\* the compiled expression matches text from element k on, with p characters
\* of the text consumed
RECURSIVE MatchFrom(_, _, _, _)
MatchFrom(expr, k, text, p) ==
    IF k > Len(expr) THEN TRUE
    ELSE CASE expr[k] = "^" -> p = 0 /\ MatchFrom(expr, k + 1, text, p)
           [] expr[k] = "$" -> p = Len(text) /\ MatchFrom(expr, k + 1, text, p)
           [] expr[k] = "." -> p < Len(text) /\ MatchFrom(expr, k + 1, text, p + 1)
           [] OTHER -> /\ p < Len(text)
                       /\ text[p + 1] = expr[k]
                       /\ MatchFrom(expr, k + 1, text, p + 1)

\* (*Regexp).MatchString: the expression matches somewhere in the text
MatchString(expr, text) == \E start \in 0..Len(text) : MatchFrom(expr, 1, text, start)

\* pkg.IsPurgeable: the creation date lies in the window that ends `before`
\* ago and, when since is set, starts `since` ago
IsPurgeable(candidate, before, since) ==
    /\ candidate <= Now - before
    /\ since # 0 => candidate >= Now - since

ImportIdle ==
    /\ ImageCMDOptions = [OsType |-> <<>>, StorageType |-> <<>>, AccessKey |-> "",
                          SecretKey |-> "", BucketName |-> BucketName,
                          ServiceCredName |-> ServiceCredName]
    /\ opt = ImageCMDOptions
    /\ pc = "idle"
    /\ result = "running"
    /\ errKind = ""
    /\ instances = <<>>
    /\ idx = 1
    /\ s3client = NilClient
    /\ cosOfBucket = NilResource
    /\ keys = <<>>
    /\ cred = NilCred
    /\ createArgs = NoCreate
    /\ importArgs = NoImport
    /\ calls = <<>>

InitPurge ==
    /\ ImportIdle
    /\ images = <<>>
    /\ purgeArgs \in [before : 0..MaxTime, since : 0..MaxTime, expr : Exprs]
    /\ pidx = 1
    /\ candidates = <<>>
    /\ ppc = "getAll"

\* image.go:79-82
GetAll ==
    /\ ppc = "getAll"
    /\ \/ /\ ppc' = "error"
          /\ UNCHANGED images
       \/ \E listing \in SeqsUpTo(Images, MaxImages) :
            /\ images' = listing
            /\ ppc' = "loop"
    /\ UNCHANGED <<purgeArgs, pidx, candidates>>
    /\ UNCHANGED importVars

\* Purgeable with the date test skipped once the name matched
Purgeable_NameOnly(image, args) ==
    IF args.expr # <<>>
    THEN MatchString(args.expr, image.Name)
    ELSE IsPurgeable(image.CreationDate, args.before, args.since)

\* image.go:86-93: neither `continue` is taken
Purgeable(image, args) ==
    /\ args.expr # <<>> => MatchString(args.expr, image.Name)
    /\ IsPurgeable(image.CreationDate, args.before, args.since)

\* image.go:85-95, one iteration; r is nil when Compile failed and
\* r.MatchString then dereferences it
PurgeLoop ==
    /\ ppc = "loop"
    /\ pidx <= Len(images)
    /\ IF purgeArgs.expr # <<>> /\ CompileFails(purgeArgs.expr)
       THEN /\ ppc' = "panic"
            /\ UNCHANGED <<pidx, candidates>>
       ELSE /\ candidates' = IF Purgeable(images[pidx], purgeArgs)
                             THEN Append(candidates, images[pidx])
                             ELSE candidates
            /\ pidx' = pidx + 1
            /\ UNCHANGED ppc
    /\ UNCHANGED <<images, purgeArgs>>
    /\ UNCHANGED importVars

\* image.go:96
PurgeReturn ==
    /\ ppc = "loop"
    /\ pidx > Len(images)
    /\ ppc' = "returned"
    /\ UNCHANGED <<images, purgeArgs, pidx, candidates>>
    /\ UNCHANGED importVars

NextPurge ==
    \/ GetAll
    \/ PurgeLoop
    \/ PurgeReturn

SpecPurge == InitPurge /\ [][NextPurge]_vars

----------------------------------------------------------------------------
(* Properties *)

Ops(op) == {k \in DOMAIN calls : calls[k].op = op}
Called(op) == Ops(op) # {}
Succeeded(op) == \E k \in Ops(op) : calls[k].ok

\* ListBuckets answered for the instance with a listing that holds the bucket
Listed(id) ==
    \E k \in Ops("ListBuckets") :
        calls[k].inst = id /\ calls[k].ok /\ ImageCMDOptions.BucketName \in calls[k].buckets

Queried(id) ==
    \E k \in DOMAIN calls : calls[k].op \in {"NewS3Client", "ListBuckets"} /\ calls[k].inst = id

BucketFound == \E k \in DOMAIN instances : Listed(instances[k].ID)
ObjectConfirmed == Succeeded("CheckIfObjectExists")
BothSupplied == ImageCMDOptions.AccessKey # "" /\ ImageCMDOptions.SecretKey # ""

OsTypes == {validOsType[k] : k \in DOMAIN validOsType}
StorageTypes == {validStorageType[k] : k \in DOMAIN validStorageType}

StepOf(op) ==
    CASE op \in {"NewS3Client", "ListBuckets"} -> 1
      [] op = "CheckIfObjectExists" -> 2
      [] op = "ListResourceKeys" -> 3
      [] op = "CreateResourceKey" -> 4
      [] op = "ImportImage" -> 5
      [] OTHER -> 0

\* C2: the remote calls of a run are made in the order locate the COS
\* instance, check the object, list / create the service credential, import;
\* the import API is called at most once and only after the bucket was found
\* and the object confirmed; when the bucket is not found or the object does
\* not exist the run ends with an error and none of ListResourceKeys,
\* CreateResourceKey, ImportImage is called.
C2_StepOrder ==
    /\ \A j, k \in DOMAIN calls :
          (j < k /\ StepOf(calls[j].op) # 0 /\ StepOf(calls[k].op) # 0)
              => StepOf(calls[j].op) <= StepOf(calls[k].op)
    /\ Cardinality(Ops("ImportImage")) <= 1
    /\ Called("ImportImage") => BucketFound /\ ObjectConfirmed
    /\ (~ BucketFound \/ ~ ObjectConfirmed) =>
          /\ ~ Called("ListResourceKeys")
          /\ ~ Called("CreateResourceKey")
          /\ ~ Called("ImportImage")
    /\ (pc = "done" /\ Succeeded("ListResourceInstances") /\ ~ BucketFound) => result = "error"
    /\ (\E k \in Ops("CheckIfObjectExists") : ~ calls[k].ok) => pc = "done" /\ result = "error"

C2_Witness ==
    /\ result = "ok"
    /\ Called("CreateResourceKey")
    /\ Len(instances) = 3

PropagatedOps == {"NewClient", "NewIamAuthenticator", "NewResourceControllerV2",
                  "ListResourceInstances", "ListResourceKeys", "CreateResourceKey",
                  "NewPVMClient", "ImportImage"}

ScanOps == {"NewS3Client", "ListBuckets"}

ErrorsOf(op) ==
    CASE op = "ListResourceKeys" -> {"failed to list the service credentials"}
      [] op = "ImportImage" -> {"ImportImage", "Failed to initiate the import job"}
      [] OTHER -> {op}

\* C3 as stated: every failed SDK call, NewS3Client and ListBuckets included,
\* ends the run with an error and is the last call made.
C3_EveryErrorPropagated ==
    \A k \in DOMAIN calls :
        (calls[k].op \in PropagatedOps \cup ScanOps /\ ~ calls[k].ok)
            => pc = "done" /\ result = "error" /\ k = Len(calls)

\* C3 amended: a failure of client construction, ListResourceInstances,
\* ListResourceKeys, CreateResourceKey, NewPVMClient or the import POST ends
\* the run with that error and is the last call made; a failure of
\* NewS3Client or ListBuckets is never the command's error, the instance it
\* concerned is not the one the scan returns and is not called again; no
\* failed call is made a second time.
C3_ErrorsPropagatedButScan ==
    /\ \A k \in DOMAIN calls :
          (calls[k].op \in PropagatedOps /\ ~ calls[k].ok) =>
              /\ pc = "done"
              /\ result = "error"
              /\ errKind \in ErrorsOf(calls[k].op)
              /\ k = Len(calls)
    /\ \A k \in DOMAIN calls :
          (calls[k].op \in ScanOps /\ ~ calls[k].ok) =>
              /\ cosOfBucket.ID # calls[k].inst
              /\ errKind \notin ScanOps
              /\ \A j \in DOMAIN calls : j > k => calls[j].inst # calls[k].inst
    /\ \A j, k \in DOMAIN calls :
          (j < k /\ ~ calls[j].ok) =>
              ~ (calls[j].op = calls[k].op /\ calls[j].inst = calls[k].inst)

C3_Witness ==
    /\ \E k \in Ops("NewS3Client") \cup Ops("ListBuckets") : ~ calls[k].ok
    /\ pc = "done"
    /\ errKind = "CreateResourceKey"

\* C4: with both keys supplied the import API gets the user's pair and the
\* resource keys are neither listed nor created; otherwise both keys it gets
\* are the access_key_id and secret_access_key of the service credential.
C4_KeysPassed ==
    /\ BothSupplied => ~ Called("ListResourceKeys") /\ ~ Called("CreateResourceKey")
    /\ Called("ImportImage") =>
          IF BothSupplied
          THEN /\ importArgs.accessKey = ImageCMDOptions.AccessKey
               /\ importArgs.secretKey = ImageCMDOptions.SecretKey
          ELSE /\ cred # NilCred
               /\ Succeeded("ListResourceKeys")
               /\ importArgs.accessKey = cred.access_key_id
               /\ importArgs.secretKey = cred.secret_access_key

C4_Witness ==
    /\ Called("ImportImage")
    /\ ImageCMDOptions.AccessKey = "user-access"
    /\ ImageCMDOptions.SecretKey = ""
    /\ cred.hasHmac
    /\ importArgs.accessKey = cred.access_key_id

C6_CreateIffNoKey ==
    /\ Cardinality(Ops("CreateResourceKey")) <= 1
    /\ Called("ListResourceKeys") => ~ BothSupplied
    /\ Called("CreateResourceKey") =>
          /\ Succeeded("ListResourceKeys")
          /\ keys = <<>>
          /\ cosOfBucket # NilResource
          /\ createArgs = [name |-> ImageCMDOptions.ServiceCredName,
                           source |-> cosOfBucket.ID, hmac |-> TRUE]
    /\ (Succeeded("ListResourceKeys") /\ pc # "createKey") =>
          (Called("CreateResourceKey") <=> keys = <<>>)
    /\ keys # <<>> => ~ Called("CreateResourceKey") /\ cred = keys[1]

C6_Witness ==
    /\ Succeeded("CreateResourceKey")
    /\ Called("ImportImage")
    /\ createArgs.source = "cos2"

\* C7: the credential whose keys are used belongs to the COS instance the
\* scan found.
C7_CredentialOfFoundInstance ==
    cred # NilCred => cred.source = cosOfBucket.ID

\* C8: the scan returns the first instance in list order that is a COS
\* instance and whose bucket listing holds the bucket; only COS instances are
\* queried, in list order, none after the match; the scan ends without an
\* instance exactly when no instance's listing held the bucket, and then
\* every COS instance of the list was queried.
C8_LinearScan ==
    /\ cosOfBucket # NilResource =>
          \E k \in DOMAIN instances :
              /\ instances[k] = cosOfBucket
              /\ StringsContains(cosOfBucket.Crn, CosWord)
              /\ Listed(cosOfBucket.ID)
              /\ \A j \in DOMAIN instances : j < k => ~ Listed(instances[j].ID)
              /\ \A j \in DOMAIN instances : j > k => ~ Queried(instances[j].ID)
    /\ \A k \in DOMAIN calls :
          calls[k].op \in ScanOps =>
              \E n \in DOMAIN instances :
                  /\ instances[n].ID = calls[k].inst
                  /\ StringsContains(instances[n].Crn, CosWord)
    /\ \A j, k \in Ops("NewS3Client") :
          j < k => \E m, n \in DOMAIN instances :
                       m < n /\ instances[m].ID = calls[j].inst /\ instances[n].ID = calls[k].inst
    /\ (Succeeded("ListResourceInstances") /\ pc \notin {"scan", "listBuckets"}) =>
          /\ (cosOfBucket = NilResource) <=> ~ BucketFound
          /\ cosOfBucket = NilResource =>
                /\ pc = "done"
                /\ result = "error"
                /\ errKind = "failed to find the COS instance"
                /\ \A n \in DOMAIN instances :
                      StringsContains(instances[n].Crn, CosWord) => Queried(instances[n].ID)

C8_Witness ==
    /\ Len(instances) = 3
    /\ cosOfBucket = instances[3]
    /\ ~ StringsContains(instances[2].Crn, CosWord)
    /\ Queried(instances[1].ID)

\* C9: the object check runs on the S3 client made for the instance the scan
\* returned, never on nil and never on another instance's client.
C9_ClientOfFoundInstance ==
    /\ pc = "checkObject" => s3client # NilClient /\ s3client = cosOfBucket.ID
    /\ \A k \in Ops("CheckIfObjectExists") :
          calls[k].inst # NilClient /\ calls[k].inst = cosOfBucket.ID
    /\ result # "panic"

C9_Witness ==
    /\ Called("CheckIfObjectExists")
    /\ cosOfBucket.ID = "cos2"
    /\ \E k \in Ops("ListBuckets") : calls[k].inst = "cos1" /\ calls[k].ok
    /\ s3client = "cos2"

====
